---- MODULE Spec2Model ----
(***************************************************************************)
(* A model of the tabbed browser shell (Beta V2, with the address-bar      *)
(* resolution of Browser V3 and the navigation of the first version,       *)
(* browser.py): the tab widget, the per-tab navigation flag,               *)
(* the address bar, the shared history, the bookmarks, the three JSON      *)
(* stores, and the rendering engine's queued callbacks.                    *)
(*                                                                         *)
(* Text (URLs, titles, labels, address-bar text) is a sequence of          *)
(* one-character strings, so that strip/startswith/quote_plus are computed *)
(* character by character.  Positions in the tab order are 1-based here;   *)
(* position k models Qt index k-1.                                         *)
(***************************************************************************)
EXTENDS Naturals, Sequences, FiniteSets

VARIABLES
    variant,     \* which program runs: "V1" (browser.py), "BetaV2" or "V3"
    phase,       \* "running" (window open) or "stopped" (after aboutToQuit)
    tabs,        \* QTabWidget pages in tab order, each a BrowserTab record
    current,     \* QTabWidget.currentIndex (1-based; 0 when there is no tab)
    url_input,   \* text of the QLineEdit address bar
    history,     \* SimpleBrowser.history, shared by reference with every tab
    bookmarks,   \* SimpleBrowser.bookmarks
    disk,        \* contents of history.json, bookmarks.json, session.json
    closed,      \* widgets removed from the tab widget whose engine still has callbacks queued
    notice,      \* the QMessageBox shown by the last handler ("none" if none)
    wfail        \* number of save_json calls that failed so far

vars == <<variant, phase, tabs, current, url_input, history, bookmarks, disk,
          closed, notice, wfail>>

----------------------------------------------------------------------------
(* Bounds of the model *)

\* open tabs at once
MaxTabs == 2
\* loads still in flight in a tab when the user starts another one
MaxLoads == 1
\* closed widgets with callbacks still queued
MaxClosed == 1
\* bookmark entries
MaxBookmarks == 2
\* failing writes
MaxWriteFailures == 1
\* counted executions of the ad-filter script per tab
MaxAds == 2
\* length of the free address-bar texts tried on the V3 resolution
MaxLen == 2

----------------------------------------------------------------------------
(* Text *)

Empty == <<>>
HTTP == <<"h","t","t","p",":","/","/">>
HTTPS == <<"h","t","t","p","s",":","/","/">>

StartsWith(s, p) == Len(s) >= Len(p) /\ SubSeq(s, 1, Len(p)) = p

Contains(s, c) == \E i \in 1..Len(s) : s[i] = c

\* str.strip(): the characters Python treats as whitespace (of those modelled)
IsSpace(c) == c \in {" ", "\t"}

RECURSIVE LStrip(_)
LStrip(s) == IF s # Empty /\ IsSpace(Head(s)) THEN LStrip(Tail(s)) ELSE s

RECURSIVE RStrip(_)
RStrip(s) ==
    IF s # Empty /\ IsSpace(s[Len(s)]) THEN RStrip(SubSeq(s, 1, Len(s) - 1)) ELSE s

Strip(s) == RStrip(LStrip(s))

\* urllib.parse.quote_plus on one character: letters, digits and _.-~ are kept,
\* a space becomes '+', every other character is percent-encoded
quote_plus_char(c) ==
    CASE c = " "  -> <<"+">>
      [] c = "\t" -> <<"%","0","9">>
      [] c = "+"  -> <<"%","2","B">>
      [] c = "/"  -> <<"%","2","F">>
      [] c = ":"  -> <<"%","3","A">>
      [] c = "?"  -> <<"%","3","F">>
      [] c = "="  -> <<"%","3","D">>
      [] OTHER    -> <<c>>

RECURSIVE quote_plus(_)
quote_plus(s) ==
    IF s = Empty THEN Empty ELSE quote_plus_char(Head(s)) \o quote_plus(Tail(s))

SEARCH == HTTPS \o <<"d","u","c","k","d","u","c","k","g","o",".","c","o","m","/","?","q","=">>

\* a V3 navigate whose second rule does not test for a space
ResolveV3_dot_only(raw) ==
    LET text == Strip(raw) IN
    IF StartsWith(text, HTTP) \/ StartsWith(text, HTTPS) THEN text
    ELSE IF Contains(text, ".") THEN HTTPS \o text
    ELSE SEARCH \o quote_plus(text)

\* Browser V3 navigate: the URL computed from the address-bar text
ResolveV3(raw) ==
    LET text == Strip(raw) IN
    IF StartsWith(text, HTTP) \/ StartsWith(text, HTTPS) THEN text
    ELSE IF Contains(text, ".") /\ ~Contains(text, " ") THEN HTTPS \o text
    ELSE SEARCH \o quote_plus(text)

\* a navigate that loads the stripped text as it is
ResolveBeta_as_typed(raw) == Strip(raw)

\* Beta V2 and browser.py navigate: the URL computed from the address-bar text
ResolveBeta(raw) ==
    LET url == Strip(raw) IN
    IF ~(StartsWith(url, HTTP) \/ StartsWith(url, HTTPS)) THEN HTTPS \o url ELSE url

----------------------------------------------------------------------------
(* The values the rendering engine and the user supply *)

\* the static home page given to setHtml, as a document of the engine
HomeDoc == <<"home">>

\* what url() reports while the home page is shown (a data: URL)
HomeUrl == <<"d","a","t","a",":">>
U1 == HTTPS \o <<"a",".","b">>
U2 == HTTP \o <<"c">>
PageUrls == {U1, U2}
\* a page whose URL holds a blank, a hyphen and a blank (url().toString()
\* shows an encoded blank of the path as a blank), and a page whose title does
U3 == U1 \o <<"/","c"," ","-"," ","d">>
U4 == HTTP \o <<"e">>

Welcome == <<"W","e","l","c","o","m","e">>

\* the title the engine reports for a document: the home page's <title>, a titled
\* page, and a page without a title
TitleOf(doc) ==
    IF doc \in {HomeDoc, HomeUrl} THEN Welcome
    ELSE IF doc = U1 THEN <<"T">>
    ELSE IF doc = U4 THEN <<"N"," ","-"," ","s">>
    ELSE Empty

\* the URL the engine reports for a document: a page is named by its URL
UrlOf(doc) == IF doc = HomeDoc THEN HomeUrl ELSE doc

LHome == <<"H","o","m","e">>
LHomePrivate == LHome \o <<" ","#">>
LLoading == <<"L","o","a","d","i","n","g",".",".",".">>
LNewTab == <<"N","e","w"," ","T","a","b">>

\* the address-bar text the user enters in Beta V2 (it resolves to U1)
Texts == { <<" ","a",".","b">> }

\* address-bar texts tried on Browser V3: the three of the specification, texts
\* with a scheme, with surrounding blanks, with a '+', with a dot and a space,
\* and every text of at most MaxLen characters over CharsV3
CharsV3 == {"a", ".", " "}

RECURSIVE TextsOfLen(_)
TextsOfLen(n) ==
    IF n = 0 THEN { Empty }
    ELSE { Append(t, c) : t \in TextsOfLen(n - 1), c \in CharsV3 }

ExampleCom == <<"e","x","a","m","p","l","e",".","c","o","m">>
HelloWorld == <<"h","e","l","l","o"," ","w","o","r","l","d">>

TextsV3 ==
    { ExampleCom, HTTPS \o ExampleCom, HelloWorld, U2,
      <<" ","a",".","b"," ">>, <<"a","+","b">>, <<"a","."," ","b">> }
    \cup UNION { TextsOfLen(n) : n \in 0..MaxLen }

\* the address-bar texts of the runs that fill the history: they resolve to U1
\* and to U2
TextsHistory == Texts \cup { U2 }

\* the address-bar texts tried on all three programs: nothing, a host and a
\* URL with the http scheme
TextsNav == { Empty } \cup Texts \cup { U2 }

\* the address-bar texts of the runs that fill the bookmark list
TextsList == { U3, U4 }

\* how the engine treats the callbacks of a load that a new load supersedes:
\* all are still delivered, or only its load-finished is
Modes == {"keep", "abort"}

----------------------------------------------------------------------------
(* The rendering engine of one tab: queued callbacks, in the order raised *)

Ev(kind, arg) == [kind |-> kind, arg |-> arg]

\* the callbacks the engine raises for one document load
Load(doc) == << Ev("uc", UrlOf(doc)), Ev("tc", TitleOf(doc)), Ev("lf", doc) >>

IsLf(e) == e.kind = "lf"

Loads(pending) == Len(SelectSeq(pending, IsLf))

Supersede(pending, mode) ==
    IF mode = "keep" THEN pending ELSE SelectSeq(pending, IsLf)

\* QWebEngineView.setHtml / load, and the engine's own navigations (a followed
\* link, a step back or forward): document doc is shown next, callbacks queued
EngineLoad(t, doc, mode) ==
    [t EXCEPT !.shown = doc, !.pending = Supersede(@, mode) \o Load(doc),
              !.went_home = FALSE]

\* QWebEngineView.reload: the document is loaded again, its URL does not change
EngineReload(t, mode) ==
    [t EXCEPT !.pending = Supersede(@, mode) \o << Ev("lf", t.shown) >>,
              !.went_home = FALSE]

----------------------------------------------------------------------------
(* BrowserTab *)

\* BrowserTab.__init__ followed by the captures add_tab makes for its lambdas.
\* went_home is a history variable: the last command given to the tab's engine
\* was the setHtml of go_home
NewTab(profile, private, idx) ==
    [ private |-> private,
      profile |-> profile,
      went_home |-> FALSE,
      is_home |-> TRUE,
      url     |-> Empty,
      title   |-> Empty,
      label   |-> IF private THEN LHomePrivate ELSE LHome,
      idx     |-> idx,
      shown   |-> HomeDoc,
      pending |-> Load(HomeDoc),
      ads     |-> 0 ]

finish_load(t) == [t EXCEPT !.is_home = TRUE]

load_url(t, url, mode) == EngineLoad([t EXCEPT !.is_home = FALSE], url, mode)

InSeq(x, s) == \E i \in 1..Len(s) : s[i] = x

\* an on_url_changed without the test of self.private
on_url_changed_any_tab(t, q) ==
    /\ ~(q = Empty \/ t.is_home)
    /\ q # Empty /\ ~InSeq(q, history)

\* an on_url_changed without the test `url not in self.history`
on_url_changed_no_dedup(t, q) ==
    /\ ~(q = Empty \/ t.is_home)
    /\ q # Empty /\ ~t.private

\* on_url_changed: TRUE when the handler appends q to the history and saves it
on_url_changed(t, q) ==
    /\ ~(q = Empty \/ t.is_home)
    /\ q # Empty /\ ~InSeq(q, history) /\ ~t.private

\* one more execution of the script, counted up to MaxAds
OneMore(n) == IF n < MaxAds THEN n + 1 ELSE n

inject_adblock_js(t) ==
    IF ~t.is_home THEN [t EXCEPT !.ads = OneMore(@)] ELSE t

----------------------------------------------------------------------------
(* Persistent store *)

\* a save_json that never reaches the file
save_json_skipped(d, file, data, ok) == d

\* save_json: the file is overwritten, or the write fails and nothing changes
save_json(d, file, data, ok) ==
    IF ok THEN [d EXCEPT ![file] = data, !.unreadable = @ \ {file}] ELSE d

\* a save_json without its try/except: a failing write raises to the caller
save_returns_on_success(ok) == ok

\* save_json returns normally whether or not the write failed (except: pass)
save_returns(ok) == TRUE

\* a load_json that hands back whatever the file holds, default ignored
load_json_no_default(d, file, default) == d[file]

\* load_json: the parsed contents of the file, or the default when the file is
\* absent, unreadable or does not parse
load_json(d, file, default) == IF file \in d.unreadable THEN default ELSE d[file]

\* a write may fail only while the bound on failing writes allows it
CanFail(ok) == ok \/ wfail < MaxWriteFailures
Failed(ok) == IF ok THEN wfail ELSE wfail + 1

----------------------------------------------------------------------------
(* SimpleBrowser: the window controller *)

\* sync_url: the address-bar text after synchronising with the tab at idx
sync_url(ts, idx) ==
    IF idx \in 1..Len(ts)
    THEN IF ts[idx].is_home THEN Empty ELSE ts[idx].url
    ELSE Empty

\* update_url: TRUE when the url-changed lambda of tab b writes the address bar
update_url(isCurrent, b) == isCurrent /\ ~b.is_home

\* QWebEngineProfile.defaultProfile()
DefaultProfile == 0

\* the profile objects alive: the default one and those held by the widgets
\* the model follows, open (ts) or removed from the tab widget (closed)
AliveProfiles(ts) ==
    {DefaultProfile} \cup { ts[k].profile : k \in 1..Len(ts) }
                     \cup { z.profile : z \in closed }

\* a constructor that hands out one and the same private profile
NewProfile_shared(alive) == 1

\* QWebEngineProfile(): an object distinct from every profile alive
NewProfile(alive) == CHOOSE n \in 1..(Cardinality(alive) + 1) : n \notin alive

\* an add_tab that leaves out setCurrentIndex(idx)
add_tab_keeps_current(W, url, private, mode) ==
    LET idx     == Len(W.tabs) + 1
        profile == IF private THEN NewProfile(AliveProfiles(W.tabs)) ELSE DefaultProfile
        browser == NewTab(profile, private, idx)
        b       == IF url # Empty
                   THEN [load_url(browser, url, mode) EXCEPT !.label = LLoading]
                   ELSE browser
        ts      == Append(W.tabs, b)
    IN  [tabs |-> ts, current |-> IF W.current = 0 THEN idx ELSE W.current,
         url_input |-> sync_url(ts, idx)]

\* add_tab on the window state W = [tabs, current, url_input]; an empty url
\* stands for both None and '' (both falsy in `if url:`)
add_tab(W, url, private, mode) ==
    LET idx     == Len(W.tabs) + 1
        profile == IF private THEN NewProfile(AliveProfiles(W.tabs)) ELSE DefaultProfile
        browser == NewTab(profile, private, idx)
        b       == IF url # Empty
                   THEN [load_url(browser, url, mode) EXCEPT !.label = LLoading]
                   ELSE browser
        ts      == Append(W.tabs, b)
    IN  [tabs |-> ts, current |-> idx, url_input |-> sync_url(ts, idx)]

\* a close_tab that tests count() >= 1
close_tab_allowed_any(n) == n >= 1

\* close_tab's test: may a tab be removed while n tabs are open
close_tab_allowed(n) == n > 1

RemoveAt(s, i) ==
    IF i \in 1..Len(s) THEN SubSeq(s, 1, i - 1) \o SubSeq(s, i + 1, Len(s)) ELSE s

\* QTabWidget.removeTab: the current index afterwards (the tab to the right of a
\* removed current tab becomes current, the left one if there is none)
CurrentAfterRemove(cur, i, n) ==
    IF i < cur THEN cur - 1
    ELSE IF i = cur THEN (IF i <= n - 1 THEN i ELSE n - 1)
    ELSE cur

\* the title-changed lambda of add_tab: setTabText(i, t or 'New Tab') at the
\* captured index i; QTabWidget ignores an index with no tab
SetTabText(ts, i, text) ==
    IF i \in 1..Len(ts) THEN [ts EXCEPT ![i].label = text] ELSE ts

TitleLabel(t) == IF t # Empty THEN t ELSE LNewTab

\* save_session: one entry per tab, in tab order
SessionEntry(w) ==
    [url |-> IF ~w.is_home THEN w.url ELSE Empty, private |-> w.private]

save_session(ts) == [i \in 1..Len(ts) |-> SessionEntry(ts[i])]

\* SimpleBrowser.__init__: the tabs opened from the session store
RECURSIVE RestoreFrom(_, _, _, _)
RestoreFrom(W, session, i, mode) ==
    IF i > Len(session) THEN W
    ELSE RestoreFrom(add_tab(W, session[i].url, session[i].private, mode),
                     session, i + 1, mode)

NoWindow == [tabs |-> <<>>, current |-> 0, url_input |-> Empty]

\* a restore that afterwards activates the first tab
Restore_first_active(session, mode) ==
    IF session # <<>>
    THEN [RestoreFrom(NoWindow, session, 1, mode) EXCEPT !.current = 1]
    ELSE add_tab(NoWindow, Empty, FALSE, mode)

Restore(session, mode) ==
    IF session # <<>> THEN RestoreFrom(NoWindow, session, 1, mode)
    ELSE add_tab(NoWindow, Empty, FALSE, mode)

\* a closed widget keeps its flags, its captured index and its queued callbacks
Closed(t) ==
    [private |-> t.private, profile |-> t.profile, is_home |-> t.is_home,
     idx |-> t.idx, pending |-> t.pending]

----------------------------------------------------------------------------
(* Initial states: the window as SimpleBrowser.__init__ leaves it *)

\* history.json as found at the first start: absent/empty, or holding one URL
InitHistories == { <<>>, <<U1>> }

SetWindowInit(W) ==
    /\ tabs = W.tabs
    /\ current = W.current
    /\ url_input = W.url_input

\* the three file names
Files == {"history", "bookmarks", "session"}

Init ==
    \E h \in InitHistories :
        /\ variant = "BetaV2"
        /\ phase = "running"
        /\ disk = [history |-> h, bookmarks |-> <<>>, session |-> <<>>,
                   unreadable |-> IF h = <<>> THEN Files ELSE Files \ {"history"}]
        /\ closed = {}
        /\ history = load_json(disk, "history", <<>>)
        /\ bookmarks = load_json(disk, "bookmarks", <<>>)
        /\ SetWindowInit(Restore(load_json(disk, "session", <<>>), "keep"))
        /\ notice = "none"
        /\ wfail = 0

----------------------------------------------------------------------------
(* User commands *)

Running == phase = "running"

Window == [tabs |-> tabs, current |-> current, url_input |-> url_input]

SetWindow(W) ==
    /\ tabs' = W.tabs
    /\ current' = W.current
    /\ url_input' = W.url_input

\* room for one more load in the engine's queue of tab t
Room(t, mode) == Loads(Supersede(t.pending, mode)) < MaxLoads

\* toolbar '+': add_tab()
new_tab ==
    /\ Running /\ Len(tabs) < MaxTabs
    /\ SetWindow(add_tab(Window, Empty, FALSE, "keep"))
    /\ notice' = "none"
    /\ UNCHANGED <<variant, phase, history, bookmarks, disk, closed, wfail>>

\* toolbar private button: add_tab(private=True)
add_private_tab ==
    /\ Running /\ variant = "BetaV2" /\ Len(tabs) < MaxTabs
    /\ SetWindow(add_tab(Window, Empty, TRUE, "keep"))
    /\ notice' = "none"
    /\ UNCHANGED <<variant, phase, history, bookmarks, disk, closed, wfail>>

\* tabCloseRequested(i) -> close_tab(i).  removeTab does not delete the widget:
\* with keep, the model goes on following the removed widget, whose engine
\* raises the callbacks it has queued; without, the widget is followed no more
close_tab(i, keep) ==
    /\ Running /\ i \in 1..Len(tabs)
    /\ IF close_tab_allowed(Len(tabs))
       THEN LET ts  == RemoveAt(tabs, i)
                cur == CurrentAfterRemove(current, i, Len(tabs))
                z   == Closed(tabs[i])
            IN  /\ keep => Cardinality(closed \cup {z}) <= MaxClosed
                /\ tabs' = ts
                /\ current' = cur
                /\ url_input' = IF i <= current THEN sync_url(ts, cur) ELSE url_input
                /\ closed' = IF keep THEN closed \cup {z} ELSE closed
       ELSE ~keep /\ UNCHANGED <<tabs, current, url_input, closed>>
    /\ notice' = "none"
    /\ UNCHANGED <<variant, phase, history, bookmarks, disk, wfail>>

\* the user selects another tab: currentChanged(i) -> sync_url(i)
tab_switch(i) ==
    /\ Running /\ i \in 1..Len(tabs) /\ i # current
    /\ current' = i
    /\ url_input' = sync_url(tabs, i)
    /\ notice' = "none"
    /\ UNCHANGED <<variant, phase, tabs, history, bookmarks, disk, closed, wfail>>

\* the user leaves `text` in the address bar and presses return: navigate()
navigate(text, mode) ==
    /\ Running /\ current \in 1..Len(tabs) /\ Room(tabs[current], mode)
    /\ LET url == IF variant = "V3" THEN ResolveV3(text) ELSE ResolveBeta(text)
       IN  tabs' = [tabs EXCEPT ![current] = load_url(@, url, mode)]
    /\ url_input' = text
    /\ notice' = "none"
    /\ UNCHANGED <<variant, phase, current, history, bookmarks, disk, closed, wfail>>

\* the session-history entries of a tab are not tracked: back() and forward()
\* step to any other document the tab may have shown before
StepTargets(t) == (PageUrls \cup {HomeDoc}) \ {t.shown}

go_back(u, mode) ==
    /\ Running /\ current \in 1..Len(tabs) /\ Room(tabs[current], mode)
    /\ u \in StepTargets(tabs[current])
    /\ tabs' = [tabs EXCEPT ![current] = EngineLoad(@, u, mode)]
    /\ notice' = "none"
    /\ UNCHANGED <<variant, phase, current, url_input, history, bookmarks, disk, closed, wfail>>

go_forward(u, mode) ==
    /\ Running /\ current \in 1..Len(tabs) /\ Room(tabs[current], mode)
    /\ u \in StepTargets(tabs[current])
    /\ tabs' = [tabs EXCEPT ![current] = EngineLoad(@, u, mode)]
    /\ notice' = "none"
    /\ UNCHANGED <<variant, phase, current, url_input, history, bookmarks, disk, closed, wfail>>

reload(mode) ==
    /\ Running /\ current \in 1..Len(tabs) /\ Room(tabs[current], mode)
    /\ tabs' = [tabs EXCEPT ![current] = EngineReload(@, mode)]
    /\ notice' = "none"
    /\ UNCHANGED <<variant, phase, current, url_input, history, bookmarks, disk, closed, wfail>>

\* go_home on the active tab: is_home, setHtml, setTabText, url_input.clear
GoHome(mode) ==
    /\ tabs' = [tabs EXCEPT ![current] =
                    [EngineLoad([@ EXCEPT !.is_home = TRUE], HomeDoc, mode)
                        EXCEPT !.label = LHome, !.went_home = TRUE]]
    /\ url_input' = Empty
    /\ notice' = "none"
    /\ UNCHANGED <<variant, phase, current, history, bookmarks, disk, closed, wfail>>

\* toolbar home button while the active tab has no load in flight
go_home(mode) ==
    /\ Running /\ current \in 1..Len(tabs) /\ Room(tabs[current], mode)
    /\ GoHome(mode)

\* toolbar home button while a load of the active tab is still in flight: the
\* navigation is abandoned, its callbacks are treated as mode says
go_home_loading(mode) ==
    /\ Running /\ current \in 1..Len(tabs)
    /\ ~Room(tabs[current], mode) /\ Loads(tabs[current].pending) <= MaxLoads
    /\ GoHome(mode)

\* the user follows a link of the page the active tab displays: the engine
\* navigates by itself, no handler of the shell runs until its callbacks arrive
link_click(u, mode) ==
    /\ Running /\ current \in 1..Len(tabs)
    /\ tabs[current].shown # HomeDoc /\ tabs[current].pending = <<>>
    /\ tabs' = [tabs EXCEPT ![current] = EngineLoad(@, u, mode)]
    /\ notice' = "none"
    /\ UNCHANGED <<variant, phase, current, url_input, history, bookmarks, disk, closed, wfail>>

HasUrl(bs, url) == \E i \in 1..Len(bs) : bs[i].url = url

\* add_bookmark: what the handler does for active tab w and bookmarks bs: the
\* bookmarks afterwards, whether it saves them, and the message box it shows
add_bookmark_outcome(w, bs) ==
    IF ~w.is_home
    THEN IF HasUrl(bs, w.url)
         THEN [bookmarks |-> bs, save |-> FALSE, notice |-> "already"]
         ELSE [bookmarks |-> Append(bs, [title |-> w.title, url |-> w.url]),
               save |-> TRUE, notice |-> "bookmarked"]
    ELSE [bookmarks |-> bs, save |-> FALSE, notice |-> "none"]

\* toolbar bookmark button: add_bookmark()
add_bookmark(ok) ==
    /\ Running /\ variant = "BetaV2" /\ current \in 1..Len(tabs)
    /\ LET r == add_bookmark_outcome(tabs[current], bookmarks) IN
       /\ Len(r.bookmarks) <= MaxBookmarks
       /\ bookmarks' = r.bookmarks
       /\ notice' = IF r.save /\ ~save_returns(ok) THEN "error" ELSE r.notice
       /\ IF r.save
          THEN /\ CanFail(ok)
               /\ disk' = save_json(disk, "bookmarks", r.bookmarks, ok)
               /\ wfail' = Failed(ok)
          ELSE ok /\ UNCHANGED <<disk, wfail>>
    /\ UNCHANGED <<variant, phase, tabs, current, url_input, history, closed>>

\* the separator of the bookmark list
SEP == <<" ", "-", " ">>

\* show_bookmarks: the list item of a bookmark, f"{title} - {url}"
BookmarkItem(bm) == bm.title \o SEP \o bm.url

\* the positions at which SEP occurs in s
SepAt(s) == { i \in 1..Len(s) : i + 2 <= Len(s) /\ SubSeq(s, i, i + 2) = SEP }

\* item.split(' - ')[-1]: what follows the last separator, the separators
\* being found from the left without overlap
RECURSIVE SplitLast(_)
SplitLast(s) ==
    IF SepAt(s) = {} THEN s
    ELSE LET i == CHOOSE m \in SepAt(s) : \A n \in SepAt(s) : m <= n
         IN  SplitLast(SubSeq(s, i + 3, Len(s)))

\* toolbar bookmarks button: show_bookmarks.  Without bookmarks a message box
\* is shown.  Otherwise the user selects entry i of the list and confirms, and
\* the URL read back from the item is opened in a new tab; or the user cancels
\* the list (i = 0) and nothing is opened
show_bookmarks(i, mode) ==
    /\ Running /\ variant = "BetaV2"
    /\ IF bookmarks = <<>>
       THEN /\ i = 0
            /\ notice' = "no bookmarks"
            /\ UNCHANGED <<tabs, current, url_input>>
       ELSE IF i = 0
       THEN /\ notice' = "none"
            /\ UNCHANGED <<tabs, current, url_input>>
       ELSE /\ i \in 1..Len(bookmarks) /\ Len(tabs) < MaxTabs
            /\ SetWindow(add_tab(Window, SplitLast(BookmarkItem(bookmarks[i])), FALSE, mode))
            /\ notice' = "none"
    /\ UNCHANGED <<variant, phase, history, bookmarks, disk, closed, wfail>>

----------------------------------------------------------------------------
(* Callbacks of the rendering engine, delivered on the control thread *)

HeadIs(t, kind) == t.pending # <<>> /\ Head(t.pending).kind = kind

\* urlChanged(q) of the tab at position k: url() now reports q; on_url_changed
\* and the update_url lambda run
url_changed(k, ok) ==
    /\ Running /\ k \in 1..Len(tabs) /\ HeadIs(tabs[k], "uc")
    /\ LET t == tabs[k]
           q == Head(t.pending).arg
           appends == variant \in {"V1", "BetaV2"} /\ on_url_changed(t, q)
       IN  /\ tabs' = [tabs EXCEPT ![k].url = q, ![k].pending = Tail(@)]
           /\ IF appends
              THEN /\ CanFail(ok)
                   /\ history' = Append(history, q)
                   /\ disk' = save_json(disk, "history", history', ok)
                   /\ wfail' = Failed(ok)
              ELSE ok /\ UNCHANGED <<history, disk, wfail>>
           /\ url_input' = IF update_url(k = current, t) THEN q ELSE url_input
    /\ notice' = "none"
    /\ UNCHANGED <<variant, phase, current, bookmarks, closed>>

\* the engine of a tab that load_url has sent to a page first reports an empty
\* URL (urlChanged(QUrl()), the case on_url_changed tests with isEmpty)
url_cleared(k) ==
    /\ Running /\ k \in 1..Len(tabs) /\ ~tabs[k].is_home
    /\ HeadIs(tabs[k], "uc") /\ Head(tabs[k].pending).arg # Empty
    /\ tabs' = [tabs EXCEPT ![k].pending = << Ev("uc", Empty) >> \o @]
    /\ UNCHANGED <<variant, phase, current, url_input, history, bookmarks, disk,
                   closed, notice, wfail>>

\* titleChanged(t) of the tab at position k: title() now reports t; the lambda
\* connected by add_tab sets the label at the index it captured
title_changed(k) ==
    /\ Running /\ k \in 1..Len(tabs) /\ HeadIs(tabs[k], "tc")
    /\ LET t == tabs[k]
           title == Head(t.pending).arg
           ts == [tabs EXCEPT ![k].title = title, ![k].pending = Tail(@)]
       IN  tabs' = SetTabText(ts, t.idx, TitleLabel(title))
    /\ notice' = "none"
    /\ UNCHANGED <<variant, phase, current, url_input, history, bookmarks, disk, closed, wfail>>

\* loadFinished of the tab at position k: finish_load, then inject_adblock_js
\* (the order in which __init__ connects them)
load_finished(k) ==
    /\ Running /\ k \in 1..Len(tabs) /\ HeadIs(tabs[k], "lf")
    /\ LET f == [finish_load(tabs[k]) EXCEPT !.pending = Tail(@)]
       IN  tabs' = [tabs EXCEPT ![k] = IF variant = "BetaV2" THEN inject_adblock_js(f) ELSE f]
    /\ notice' = "none"
    /\ UNCHANGED <<variant, phase, current, url_input, history, bookmarks, disk, closed, wfail>>

\* a callback of a widget that close_tab removed: removeTab does not delete the
\* widget, its signal connections stay
closed_callback(z, ok) ==
    /\ Running /\ z \in closed /\ z.pending # <<>>
    /\ LET e == Head(z.pending)
           appends == variant \in {"V1", "BetaV2"} /\ e.kind = "uc" /\ on_url_changed(z, e.arg)
           z2 == [z EXCEPT !.pending = Tail(@),
                           !.is_home = IF e.kind = "lf" THEN TRUE ELSE @]
       IN  /\ closed' = (closed \ {z}) \cup {z2}
           /\ tabs' = IF e.kind = "tc" THEN SetTabText(tabs, z.idx, TitleLabel(e.arg)) ELSE tabs
           /\ IF appends
              THEN /\ CanFail(ok)
                   /\ history' = Append(history, e.arg)
                   /\ disk' = save_json(disk, "history", history', ok)
                   /\ wfail' = Failed(ok)
              ELSE ok /\ UNCHANGED <<history, disk, wfail>>
    /\ notice' = "none"
    /\ UNCHANGED <<variant, phase, current, url_input, bookmarks>>

----------------------------------------------------------------------------
(* Session lifecycle *)

\* aboutToQuit -> save_session; the process ends, the window state of the
\* moment is kept for reference until the next start
quit(ok) ==
    /\ Running /\ CanFail(ok)
    /\ disk' = save_json(disk, "session", save_session(tabs), ok)
    /\ wfail' = Failed(ok)
    /\ phase' = "stopped"
    /\ closed' = {}
    /\ notice' = "none"
    /\ UNCHANGED <<variant, tabs, current, url_input, history, bookmarks>>

\* the next start of the program: SimpleBrowser.__init__
start(mode) ==
    /\ phase = "stopped"
    /\ phase' = "running"
    /\ IF variant = "BetaV2"
       THEN /\ history' = load_json(disk, "history", <<>>)
            /\ bookmarks' = load_json(disk, "bookmarks", <<>>)
            /\ SetWindow(Restore(load_json(disk, "session", <<>>), mode))
       ELSE /\ SetWindow(add_tab(NoWindow, Empty, FALSE, mode))
            /\ UNCHANGED <<history, bookmarks>>
    /\ notice' = "none"
    /\ UNCHANGED <<variant, disk, closed, wfail>>

\* between two runs a file is deleted, made unreadable or damaged so that it
\* no longer parses: the next load_json of it takes the except branch
store_lost(file) ==
    /\ phase = "stopped" /\ file \notin disk.unreadable
    /\ disk' = [disk EXCEPT !.unreadable = @ \cup {file}]
    /\ UNCHANGED <<variant, phase, tabs, current, url_input, history, bookmarks,
                   closed, notice, wfail>>

\* between two runs the session file is replaced by one holding an empty list
store_emptied ==
    /\ phase = "stopped" /\ disk.session # <<>>
    /\ disk' = [disk EXCEPT !.session = <<>>, !.unreadable = @ \ {"session"}]
    /\ UNCHANGED <<variant, phase, tabs, current, url_input, history, bookmarks,
                   closed, notice, wfail>>

----------------------------------------------------------------------------
(* The program *)

\* one run of the window: tabs, navigation and the engine's callbacks
Next ==
    \/ new_tab
    \/ add_private_tab
    \/ \E i \in 1..MaxTabs : close_tab(i, FALSE)
    \/ \E i \in 1..MaxTabs : tab_switch(i)
    \/ \E text \in Texts, mode \in Modes : navigate(text, mode)
    \/ \E mode \in Modes : go_home(mode)
    \/ \E u \in PageUrls, mode \in Modes : link_click(u, mode)
    \/ \E k \in 1..MaxTabs, ok \in BOOLEAN : url_changed(k, ok)
    \/ \E k \in 1..MaxTabs : title_changed(k)
    \/ \E k \in 1..MaxTabs : load_finished(k)

Spec == Init /\ [][Next]_vars

\* the same run with the engine's back, forward and reload commands
NextEngine ==
    \/ Next
    \/ \E u \in PageUrls \cup {HomeDoc}, mode \in Modes : go_back(u, mode)
    \/ \E u \in PageUrls \cup {HomeDoc}, mode \in Modes : go_forward(u, mode)
    \/ \E mode \in Modes : reload(mode)

SpecEngine == Init /\ [][NextEngine]_vars

\* bookmarking in a run of the window
NextBookmarks ==
    \/ new_tab
    \/ \E i \in 1..MaxTabs : tab_switch(i)
    \/ \E text \in Texts, mode \in Modes : navigate(text, mode)
    \/ \E mode \in Modes : go_home(mode)
    \/ \E u \in PageUrls, mode \in Modes : link_click(u, mode)
    \/ \E ok \in BOOLEAN : add_bookmark(ok)
    \/ \E k \in 1..MaxTabs, ok \in BOOLEAN : url_changed(k, ok)
    \/ \E k \in 1..MaxTabs : title_changed(k)
    \/ \E k \in 1..MaxTabs : load_finished(k)

SpecBookmarks == Init /\ [][NextBookmarks]_vars

\* runs of the window separated by shutdown and restart
NextLife ==
    \/ new_tab
    \/ add_private_tab
    \/ \E i \in 1..MaxTabs : tab_switch(i)
    \/ \E text \in Texts, mode \in Modes : navigate(text, mode)
    \/ \E mode \in Modes : go_home(mode)
    \/ \E k \in 1..MaxTabs, ok \in BOOLEAN : url_changed(k, ok)
    \/ \E k \in 1..MaxTabs : title_changed(k)
    \/ \E k \in 1..MaxTabs : load_finished(k)
    \/ \E ok \in BOOLEAN : quit(ok)
    \/ \E mode \in Modes : start(mode)

SpecLife == Init /\ [][NextLife]_vars

\* Browser V3: the window as its __init__ leaves it, and its navigation
InitV3 ==
    /\ variant = "V3"
    /\ phase = "running"
    /\ disk = [history |-> <<>>, bookmarks |-> <<>>, session |-> <<>>,
               unreadable |-> Files]
    /\ closed = {}
    /\ history = <<>>
    /\ bookmarks = <<>>
    /\ SetWindowInit(add_tab(NoWindow, Empty, FALSE, "keep"))
    /\ notice = "none"
    /\ wfail = 0

\* browser.py: the window as its __init__ leaves it (no history file yet)
InitV1 ==
    /\ variant = "V1"
    /\ phase = "running"
    /\ disk = [history |-> <<>>, bookmarks |-> <<>>, session |-> <<>>,
               unreadable |-> Files]
    /\ closed = {}
    /\ history = load_json(disk, "history", <<>>)
    /\ bookmarks = <<>>
    /\ SetWindowInit(add_tab(NoWindow, Empty, FALSE, "keep"))
    /\ notice = "none"
    /\ wfail = 0

NextV3 ==
    \/ new_tab
    \/ \E i \in 1..MaxTabs : tab_switch(i)
    \/ \E text \in TextsV3, mode \in Modes : navigate(text, mode)
    \/ \E k \in 1..MaxTabs : url_changed(k, TRUE)
    \/ \E k \in 1..MaxTabs : title_changed(k)
    \/ \E k \in 1..MaxTabs : load_finished(k)

SpecV3 == InitV3 /\ [][NextV3]_vars

\* runs of the window between which the session file may be lost or emptied
NextStart ==
    \/ new_tab
    \/ add_private_tab
    \/ \E text \in Texts, mode \in Modes : navigate(text, mode)
    \/ \E k \in 1..MaxTabs : url_changed(k, TRUE)
    \/ \E k \in 1..MaxTabs : title_changed(k)
    \/ \E k \in 1..MaxTabs : load_finished(k)
    \/ quit(TRUE)
    \/ \E mode \in Modes : start(mode)
    \/ store_lost("session")
    \/ store_emptied

SpecStart == Init /\ [][NextStart]_vars

\* runs of the window with bookmarking and writes that may fail
NextSave ==
    \/ new_tab
    \/ \E text \in Texts, mode \in Modes : navigate(text, mode)
    \/ \E ok \in BOOLEAN : add_bookmark(ok)
    \/ \E k \in 1..MaxTabs, ok \in BOOLEAN : url_changed(k, ok)
    \/ \E k \in 1..MaxTabs : title_changed(k)
    \/ \E k \in 1..MaxTabs : load_finished(k)
    \/ \E ok \in BOOLEAN : quit(ok)
    \/ \E mode \in Modes : start(mode)

SpecSave == Init /\ [][NextSave]_vars

\* a run of the window in which tabs are opened from the toolbar and from the
\* bookmark list
NextOpen ==
    \/ new_tab
    \/ add_private_tab
    \/ \E i \in 1..MaxTabs : tab_switch(i)
    \/ \E text \in Texts, mode \in Modes : navigate(text, mode)
    \/ add_bookmark(TRUE)
    \/ \E i \in 1..MaxBookmarks, mode \in Modes : show_bookmarks(i, mode)
    \/ \E k \in 1..MaxTabs : url_changed(k, TRUE)
    \/ \E k \in 1..MaxTabs : title_changed(k)
    \/ \E k \in 1..MaxTabs : load_finished(k)

SpecOpen == Init /\ [][NextOpen]_vars

\* a run of the window in which the home button is used, also during a load
NextHome ==
    \/ new_tab
    \/ \E i \in 1..MaxTabs : tab_switch(i)
    \/ \E text \in Texts, mode \in Modes : navigate(text, mode)
    \/ \E mode \in Modes : go_home(mode)
    \/ \E mode \in Modes : go_home_loading(mode)
    \/ \E k \in 1..MaxTabs : url_changed(k, TRUE)
    \/ \E k \in 1..MaxTabs : title_changed(k)
    \/ \E k \in 1..MaxTabs : load_finished(k)

SpecHome == Init /\ [][NextHome]_vars

\* runs of one tab that fill the history and the bookmarks while a write of
\* the history may fail, separated by shutdown and restart
NextPersist ==
    \/ \E text \in TextsHistory, mode \in Modes : navigate(text, mode)
    \/ \E u \in PageUrls, mode \in Modes : link_click(u, mode)
    \/ add_bookmark(TRUE)
    \/ \E k \in 1..MaxTabs, ok \in BOOLEAN : url_changed(k, ok)
    \/ \E k \in 1..MaxTabs : title_changed(k)
    \/ \E k \in 1..MaxTabs : load_finished(k)
    \/ quit(TRUE)
    \/ \E mode \in Modes : start(mode)

SpecPersist == Init /\ [][NextPersist]_vars

\* a run of the window in which pages are bookmarked and the bookmark list is
\* shown, selected from and cancelled
NextList ==
    \/ \E text \in TextsList, mode \in Modes : navigate(text, mode)
    \/ add_bookmark(TRUE)
    \/ \E i \in 0..MaxBookmarks, mode \in Modes : show_bookmarks(i, mode)
    \/ \E k \in 1..MaxTabs : url_changed(k, TRUE)
    \/ \E k \in 1..MaxTabs : title_changed(k)
    \/ \E k \in 1..MaxTabs : load_finished(k)

SpecList == Init /\ [][NextList]_vars

\* navigation from the address bar in each of the three programs
NextNav ==
    \/ new_tab
    \/ \E i \in 1..MaxTabs : tab_switch(i)
    \/ \E text \in TextsNav, mode \in Modes : navigate(text, mode)
    \/ \E k \in 1..MaxTabs : url_changed(k, TRUE)
    \/ \E k \in 1..MaxTabs : title_changed(k)
    \/ \E k \in 1..MaxTabs : load_finished(k)

SpecNav == (InitV1 \/ Init \/ InitV3) /\ [][NextNav]_vars

\* a run of the window that visits two pages from several tabs
NextHistory ==
    \/ new_tab
    \/ add_private_tab
    \/ \E i \in 1..MaxTabs : tab_switch(i)
    \/ \E text \in TextsHistory, mode \in Modes : navigate(text, mode)
    \/ \E mode \in Modes : go_home(mode)
    \/ \E k \in 1..MaxTabs : url_cleared(k)
    \/ \E k \in 1..MaxTabs, ok \in BOOLEAN : url_changed(k, ok)
    \/ \E k \in 1..MaxTabs : title_changed(k)
    \/ \E k \in 1..MaxTabs : load_finished(k)

SpecHistory == Init /\ [][NextHistory]_vars

\* a run of the window in which closed tabs are followed after their removal
NextClose ==
    \/ new_tab
    \/ add_private_tab
    \/ \E i \in 1..MaxTabs, keep \in BOOLEAN : close_tab(i, keep)
    \/ \E text \in Texts, mode \in Modes : navigate(text, mode)
    \/ \E k \in 1..MaxTabs, ok \in BOOLEAN : url_changed(k, ok)
    \/ \E k \in 1..MaxTabs : title_changed(k)
    \/ \E k \in 1..MaxTabs : load_finished(k)
    \/ \E z \in closed, ok \in BOOLEAN : closed_callback(z, ok)

SpecClose == Init /\ [][NextClose]_vars

----------------------------------------------------------------------------
(* Properties *)

\* C1: under every sequence of addTab and closeTab(i) the tab collection holds
\* at least one tab; closeTab with exactly one tab open removes nothing, and
\* closeTab with more than one tab open removes exactly one tab, the one at i.
C1_TabsNeverEmpty ==
    /\ [](Len(tabs) >= 1)
    /\ [][\A i \in 1..MaxTabs :
            close_tab(i, FALSE) =>
                IF Len(tabs) = 1
                THEN tabs' = tabs
                ELSE /\ Len(tabs') = Len(tabs) - 1
                     /\ \A j \in 1..Len(tabs') :
                            tabs'[j] = IF j < i THEN tabs[j] ELSE tabs[j + 1]]_vars

\* a close has removed the first of two tabs: the tab created second is alone
C1_Witness == Len(tabs) = 1 /\ tabs[1].idx = 2

\* the tab at position k shows a page: the last document it was told to show
\* is not the static home page
ShowsPage(k) == tabs[k].shown # HomeDoc

\* every callback the engine queued for the tab at position k has been delivered
Settled(k) == tabs[k].pending = <<>>

Count(x, s) == Cardinality({ i \in 1..Len(s) : s[i] = x })

\* C2: once loadUrl(u) has been called on a tab, the tab is not in Home
\* (is_home is false) in every later state until goHome is invoked on it; in
\* particular the load-finished callback of the navigation leaves it Loaded.
C2_NotHomeAfterLoadUrl ==
    \A k \in 1..Len(tabs) : ShowsPage(k) => ~tabs[k].is_home

\* C3: for every URL u a non-private tab navigates to while it is not showing
\* the home page, once its url-changed and load-finished callbacks have been
\* delivered, u occurs exactly once in the history.
C3_NavigatedUrlOnceInHistory ==
    \A k \in 1..Len(tabs) :
        (~tabs[k].private /\ ShowsPage(k) /\ Settled(k))
            => Count(tabs[k].shown, history) = 1

\* C6: at every load-finished event of a tab the ad-filter script is executed
\* exactly once if the finished load was a navigation to a page, and not at
\* all if it was the static home page.
C6_AdFilterOncePerPageLoad ==
    [][\A k \in 1..MaxTabs :
            load_finished(k) =>
                tabs'[k].ads = IF Head(tabs[k].pending).arg # HomeDoc
                               THEN OneMore(tabs[k].ads)
                               ELSE tabs[k].ads]_vars

\* C7: activating tab i sets the address bar to tab i's current URL if tab i
\* shows a page loaded by loadUrl (still loading or finished) and to the empty
\* string if it shows the home page; no tab and no history entry changes.
C7_ActivationSyncsAddressBar ==
    [][\A i \in 1..MaxTabs :
            tab_switch(i) =>
                /\ url_input' = IF ShowsPage(i) THEN tabs[i].url ELSE Empty
                /\ tabs' = tabs
                /\ history' = history]_vars

\* a step that is an operation or a callback on the tab at position k
OnTab(k) ==
    \/ \E ok \in BOOLEAN : url_changed(k, ok)
    \/ title_changed(k)
    \/ load_finished(k)
    \/ /\ k = current
       /\ \/ \E text \in Texts, mode \in Modes : navigate(text, mode)
          \/ \E mode \in Modes : go_home(mode)
          \/ \E mode \in Modes : reload(mode)
          \/ \E u \in PageUrls \cup {HomeDoc}, mode \in Modes :
                go_back(u, mode) \/ go_forward(u, mode) \/ link_click(u, mode)

\* C4: every operation and callback on a private tab (loadUrl, url-changed,
\* load-finished, goHome, back, forward, reload) leaves the history in memory
\* and the persisted history as they were.
C4_PrivateTabKeepsHistory ==
    [][\A k \in 1..MaxTabs :
            (k <= Len(tabs) /\ tabs[k].private /\ OnTab(k)) =>
                /\ history' = history
                /\ disk'.history = disk.history]_vars

\* a private tab has received url-changed for a page while not in Home, and
\* the page is not in the history
C4_Witness ==
    \E k \in 1..Len(tabs) :
        /\ tabs[k].private /\ ~tabs[k].is_home
        /\ tabs[k].url \in PageUrls /\ tabs[k].url = tabs[k].shown
        /\ ~InSeq(tabs[k].url, history)

\* every tab is at rest: on the home page, or on a page that finished loading
AtRest(k) ==
    /\ Settled(k)
    /\ IF ShowsPage(k) THEN tabs[k].url = tabs[k].shown ELSE TRUE

\* C5: saving the session at shutdown and restoring it at the next start
\* yields the same number of tabs in the same order, tab k with the same
\* private flag; a tab that showed loaded URL u is restored by loadUrl(u) and a
\* tab on the home page is restored in Home with no loadUrl.
C5_SessionRoundTrip ==
    [][(\E mode \in Modes : start(mode))
        /\ disk.session = save_session(tabs)
        /\ (\A k \in 1..Len(tabs) : AtRest(k))
        => /\ Len(tabs') = Len(tabs)
           /\ \A k \in 1..Len(tabs) :
                /\ tabs'[k].private = tabs[k].private
                /\ IF ShowsPage(k)
                   THEN tabs'[k].shown = tabs[k].shown /\ ~tabs'[k].is_home
                   ELSE tabs'[k].shown = HomeDoc /\ tabs'[k].is_home]_vars

\* the active tab shows page u and url() reports u
ActiveAt(u) ==
    /\ current \in 1..Len(tabs)
    /\ ShowsPage(current)
    /\ tabs[current].shown = u /\ tabs[current].url = u

NoDuplicateUrl(bs) ==
    \A i, j \in 1..Len(bs) : bs[i].url = bs[j].url => i = j

\* what add_bookmark() would do in the current state
Outcome == add_bookmark_outcome(tabs[current], bookmarks)

\* C8: no two bookmark entries have the same url; addBookmark() with the
\* active tab at a URL that is already bookmarked leaves the collection
\* unchanged, persists nothing and emits the rejection notice.
C8_DuplicateBookmarkRejected ==
    /\ NoDuplicateUrl(bookmarks)
    /\ \A u \in PageUrls :
            (ActiveAt(u) /\ HasUrl(bookmarks, u))
                => /\ Outcome.bookmarks = bookmarks
                   /\ ~Outcome.save
                   /\ Outcome.notice = "already"

\* C9: addBookmark() while the active tab is on the home page leaves the
\* bookmarks unchanged, persists nothing and emits a notice; addBookmark()
\* while the active tab shows a loaded page whose URL is not bookmarked
\* appends {title, url} of that page and persists the collection.
C9_BookmarkHomeRejectedPageAdded ==
    /\ (~ShowsPage(current) /\ AtRest(current))
            => /\ Outcome.bookmarks = bookmarks
               /\ ~Outcome.save
               /\ Outcome.notice # "none"
    /\ (ShowsPage(current) /\ AtRest(current) /\ ~HasUrl(bookmarks, tabs[current].url))
            => /\ Outcome.bookmarks = Append(bookmarks,
                     [title |-> tabs[current].title, url |-> tabs[current].url])
               /\ Outcome.save

\* the three rules of the address-bar resolution, on a trimmed text
C10_Rule(t) ==
    IF StartsWith(t, HTTP) \/ StartsWith(t, HTTPS) THEN t
    ELSE IF (\E i \in 1..Len(t) : t[i] = ".") /\ (\A i \in 1..Len(t) : t[i] # " ")
         THEN HTTPS \o t
         ELSE SEARCH \o quote_plus(t)

\* C10: Browser V3 forwards the trimmed address-bar text unchanged if it
\* starts with http:// or https://, else prefixed with https:// if it holds a
\* '.' and no space, else as the search URL with the text encoded as a query;
\* "example.com" gives "https://example.com", "https://example.com" is
\* unchanged, "hello world" gives the search URL of "hello+world"; the result
\* goes to loadUrl of the active tab, and no other tab changes.
C10_AddressBarResolution ==
    /\ ResolveV3(ExampleCom) = HTTPS \o ExampleCom
    /\ ResolveV3(HTTPS \o ExampleCom) = HTTPS \o ExampleCom
    /\ ResolveV3(HelloWorld) =
            SEARCH \o <<"h","e","l","l","o","+","w","o","r","l","d">>
    /\ [][\A text \in TextsV3 :
            (url_input' = text /\ \E mode \in Modes : navigate(text, mode)) =>
                /\ ~tabs'[current].is_home
                /\ tabs'[current].shown = C10_Rule(Strip(text))
                /\ Loads(tabs'[current].pending) = Loads(tabs[current].pending) + 1
                /\ \A k \in 1..Len(tabs) : k # current => tabs'[k] = tabs[k]]_vars

\* with two tabs open, "hello world" was entered and the active tab was sent
\* to the search URL
C10_Witness ==
    /\ variant = "V3" /\ Len(tabs) = 2
    /\ url_input = HelloWorld
    /\ tabs[current].shown = SEARCH \o <<"h","e","l","l","o","+","w","o","r","l","d">>
    /\ ~tabs[current].is_home

\* the labels of the open tabs, in tab order
Labels(ts) == [k \in 1..Len(ts) |-> ts[k].label]

\* C11: a title-changed(t) event raised by the open tab at position k sets the
\* label at position k to t, or to "New Tab" when t is empty, and changes the
\* label of no other tab, whatever tabs were added and closed before.
C11_TitleSetsOwnLabel ==
    [][\A k \in 1..MaxTabs :
            title_changed(k) =>
                Labels(tabs') =
                    [Labels(tabs) EXCEPT ![k] = TitleLabel(Head(tabs[k].pending).arg)]]_vars

\* C12: at startup, if the session store is absent, unreadable, corrupt or
\* holds an empty sequence, the window opens exactly one tab, non-private, in
\* Home and active; if it holds a non-empty sequence, one tab is created per
\* entry, in entry order, by addTab(entry.url or none, entry.private).
C12_StartupRestore ==
    [][(\E mode \in Modes : start(mode)) =>
        IF "session" \in disk.unreadable \/ disk.session = <<>>
        THEN /\ Len(tabs') = 1 /\ current' = 1
             /\ ~tabs'[1].private /\ tabs'[1].is_home
             /\ tabs'[1].shown = HomeDoc /\ Loads(tabs'[1].pending) = 1
        ELSE /\ Len(tabs') = Len(disk.session)
             /\ \A k \in 1..Len(disk.session) :
                    /\ tabs'[k].private = disk.session[k].private
                    /\ IF disk.session[k].url = Empty
                       THEN /\ tabs'[k].is_home /\ tabs'[k].shown = HomeDoc
                            /\ Loads(tabs'[k].pending) = 1
                       ELSE /\ ~tabs'[k].is_home
                            /\ tabs'[k].shown = disk.session[k].url
                            /\ Loads(tabs'[k].pending) = 2]_vars

\* the program runs with one home tab although the lost session file held two
\* entries
C12_Witness ==
    /\ Running /\ "session" \in disk.unreadable /\ Len(disk.session) = 2
    /\ Len(tabs) = 1 /\ tabs[1].is_home /\ ~tabs[1].private

\* C14: when a save of history, bookmarks or session fails, the operation that
\* triggered it (url-changed append, addBookmark, shutdown) completes with the
\* in-memory history, bookmarks, tab list, active index and address bar of a
\* successful save, no error is shown, and no later step writes the lost data
\* on its own (a file changes only in the handler that changes its collection).
C14_FailedSaveIsSilent ==
    [][/\ \A k \in 1..MaxTabs :
            url_changed(k, FALSE) =>
                LET q == Head(tabs[k].pending).arg IN
                /\ history' = Append(history, q)
                /\ tabs' = [tabs EXCEPT ![k].url = q, ![k].pending = Tail(@)]
                /\ url_input' = IF k = current /\ ~tabs[k].is_home THEN q ELSE url_input
                /\ current' = current /\ bookmarks' = bookmarks
                /\ notice' = "none" /\ phase' = phase
       /\ add_bookmark(FALSE) =>
                /\ bookmarks' = Outcome.bookmarks /\ notice' = Outcome.notice
                /\ tabs' = tabs /\ current' = current /\ url_input' = url_input
                /\ history' = history /\ phase' = phase
       /\ quit(FALSE) =>
                /\ tabs' = tabs /\ current' = current /\ url_input' = url_input
                /\ history' = history /\ bookmarks' = bookmarks
                /\ notice' = "none" /\ phase' = "stopped"
       /\ disk'.history # disk.history => history' # history
       /\ disk'.bookmarks # disk.bookmarks => bookmarks' # bookmarks]_vars

\* add_bookmark has appended an entry whose save failed: the entry is in
\* memory, the notice of success was shown, the file was never written
C14_Witness ==
    /\ Running /\ wfail = 1 /\ notice = "bookmarked"
    /\ bookmarks # <<>> /\ "bookmarks" \in disk.unreadable

\* C13: each private tab references a rendering context that no other tab
\* references, and all non-private tabs reference the one default context,
\* which no private tab references.
C13_ProfilesSeparate ==
    \A k \in 1..Len(tabs) :
        IF tabs[k].private
        THEN /\ tabs[k].profile # DefaultProfile
             /\ \A j \in 1..Len(tabs) : j # k => tabs[j].profile # tabs[k].profile
        ELSE tabs[k].profile = DefaultProfile

\* two private tabs are open, the second created after an earlier private tab
\* was closed
C13_Witness ==
    /\ Len(tabs) = 2 /\ tabs[1].private /\ tabs[2].private
    /\ tabs[1].profile = 2 /\ tabs[2].profile = 1

\* C16: after closeTab has removed a tab, the callbacks the engine raises for
\* it change neither the history, nor the address bar, nor the label of a
\* remaining tab; and a callback handled for an open tab is the oldest one the
\* engine has queued for it.
C16_ClosedTabIsSilent ==
    [][/\ (\E z \in closed, ok \in BOOLEAN : closed_callback(z, ok)) =>
            /\ history' = history /\ disk'.history = disk.history
            /\ url_input' = url_input
            /\ Labels(tabs') = Labels(tabs)
       /\ \A k \in 1..MaxTabs :
            ((\E ok \in BOOLEAN : url_changed(k, ok)) \/ title_changed(k) \/ load_finished(k))
                => tabs'[k].pending = Tail(tabs[k].pending)]_vars

\* C18: when closeTab removes a private tab, that tab's rendering context is
\* destroyed: it is no longer among the profiles alive; the default context
\* is alive as long as the window is open.
C18_PrivateProfileDestroyed ==
    /\ [](Running => DefaultProfile \in AliveProfiles(tabs))
    /\ [][\A i \in 1..MaxTabs :
            (close_tab(i, TRUE) /\ Len(tabs') < Len(tabs) /\ tabs[i].private)
                => \A z \in closed' : z.profile # tabs[i].profile]_vars

\* C15: starting from a history without duplicates, under every interleaving
\* of url-changed events of the open tabs the history never holds a URL
\* twice, every change of it appends exactly one URL at its end, and no entry
\* is appended by an event with an empty URL or by an event of a tab in Home.
C15_HistoryAppendOnly ==
    /\ [](\A i, j \in 1..Len(history) : history[i] = history[j] => i = j)
    /\ [][history' # history =>
            \E k \in 1..Len(tabs) :
                /\ \E ok \in BOOLEAN : url_changed(k, ok)
                /\ history' = Append(history, Head(tabs[k].pending).arg)
                /\ Head(tabs[k].pending).arg # Empty
                /\ ~tabs[k].is_home /\ ShowsPage(k)]_vars

\* two pages were appended one after the other, and a tab that is not in Home
\* has received a url-changed event with an empty URL
C15_Witness ==
    /\ history = <<U2, U1>>
    /\ \E k \in 1..Len(tabs) : ~tabs[k].is_home /\ tabs[k].url = Empty

\* C17: a url-changed(q) event sets the address bar to q when the tab that
\* raised it is the active tab and is not in Home (it shows a page), and
\* leaves the address bar unchanged when the tab is not active or is in Home.
C17_UrlChangedUpdatesAddressBar ==
    [][\A k \in 1..MaxTabs :
            (\E ok \in BOOLEAN : url_changed(k, ok)) =>
                url_input' = IF k = current /\ ShowsPage(k)
                             THEN Head(tabs[k].pending).arg
                             ELSE url_input]_vars

\* what add_tab(url, private) leaves behind, url empty when none was given
AddTabPost(url, private) ==
    LET n == Len(tabs) + 1 IN
    /\ Len(tabs') = n /\ current' = n
    /\ tabs'[n].private = private
    /\ IF url = Empty
       THEN tabs'[n].is_home /\ tabs'[n].shown = HomeDoc
       ELSE ~tabs'[n].is_home /\ tabs'[n].shown = url
    /\ \A k \in 1..Len(tabs) : tabs'[k] = tabs[k]
    /\ url_input' = IF tabs'[n].is_home THEN Empty ELSE tabs'[n].url

\* C19: after addTab(url?, private) the tab count is larger by one, the new
\* tab is last and active, its private flag is the argument, it is in Home
\* when no url was given and was sent to url by loadUrl otherwise; the tabs
\* that existed keep their order, state and flag; the address bar shows the
\* new tab's URL, or is empty if the new tab is in Home.
C19_AddTabAppendsAndActivates ==
    [][/\ new_tab => AddTabPost(Empty, FALSE)
       /\ add_private_tab => AddTabPost(Empty, TRUE)
       /\ \A i \in 1..MaxBookmarks, mode \in Modes :
            show_bookmarks(i, mode) => AddTabPost(bookmarks[i].url, FALSE)]_vars

\* a second tab was opened from the bookmark list at the bookmarked page
C19_Witness ==
    /\ Len(tabs) = 2 /\ current = 2
    /\ ~tabs[2].is_home /\ tabs[2].shown = U1 /\ tabs[2].label = LLoading

\* a callback of the tab at position k is handled
Callback(k) ==
    \/ \E ok \in BOOLEAN : url_changed(k, ok)
    \/ title_changed(k)
    \/ load_finished(k)

\* C20: after goHome on the active tab, once every callback it triggered or
\* that was still pending from the abandoned navigation is delivered, the tab
\* is in Home, its label is "Home" and the address bar is empty; those
\* callbacks change neither the history nor another tab.
C20_GoHomeSettles ==
    /\ [](\A k \in 1..Len(tabs) :
            (tabs[k].went_home /\ Settled(k)) =>
                /\ tabs[k].is_home
                /\ tabs[k].label = LHome
                /\ k = current => url_input = Empty)
    /\ [][\A k \in 1..Len(tabs) :
            (tabs[k].went_home /\ Callback(k)) =>
                /\ history' = history /\ disk'.history = disk.history
                /\ \A j \in 1..Len(tabs) : j # k => tabs'[j] = tabs[j]]_vars

\* C21: between two handlers, as long as no write has failed, the history
\* file holds the history in memory and the bookmarks file the bookmarks in
\* memory (a file that does not exist reads as the empty collection).
C21_PersistedEqualsMemory ==
    wfail = 0 =>
        /\ load_json(disk, "history", <<>>) = history
        /\ load_json(disk, "bookmarks", <<>>) = bookmarks

\* two URLs were appended and a bookmark added, no write failed, both files
\* were written
C21_Witness ==
    /\ wfail = 0 /\ Len(history) = 2 /\ bookmarks # <<>>
    /\ disk.unreadable \cap {"history", "bookmarks"} = {}
    /\ disk.history = history /\ disk.bookmarks = bookmarks

\* what selecting bookmark b leaves behind: one more tab, last, active, not
\* private, sent to b.url by load_url; the tabs that existed are unchanged
OpensBookmark(b) ==
    LET n == Len(tabs) + 1 IN
    /\ Len(tabs') = n /\ current' = n
    /\ ~tabs'[n].private
    /\ ~tabs'[n].is_home /\ tabs'[n].shown = b.url
    /\ \A k \in 1..Len(tabs) : tabs'[k] = tabs[k]

\* C22: selecting bookmark b in the bookmark list opens one new non-private
\* tab at the end of the tab order, makes it active and calls loadUrl with
\* exactly b.url, whatever b.title and b.url are; cancelling the list opens no
\* tab; neither changes the bookmarks.
C22_BookmarkListOpensItsUrl ==
    [][\A i \in 0..MaxBookmarks, mode \in Modes :
            show_bookmarks(i, mode) =>
                /\ bookmarks' = bookmarks
                /\ IF i = 0
                   THEN tabs' = tabs /\ current' = current
                   ELSE OpensBookmark(bookmarks[i])]_vars

\* C23: when the history write for an appended URL u fails, u stays in the
\* history in memory and the file is left as it was; the next successful
\* history write, made when a later new URL is appended, writes the whole
\* collection, u included; at the next startup the history in memory is what
\* the file holds, so a URL that never reached the file is absent; and once
\* it is absent (a write has failed, memory and file agree again) it is
\* appended when a tab that is not private and shows a page reports it.
C23_LostHistoryWrite ==
    [][/\ \A k \in 1..MaxTabs :
            url_changed(k, FALSE) =>
                /\ history' = Append(history, Head(tabs[k].pending).arg)
                /\ disk' = disk
       /\ \A k \in 1..MaxTabs :
            (url_changed(k, TRUE) /\ history' # history) =>
                /\ "history" \notin disk'.unreadable
                /\ disk'.history = history'
       /\ (\E mode \in Modes : start(mode)) =>
                history' = load_json(disk, "history", <<>>)
       /\ \A k \in 1..MaxTabs :
            (/\ \E ok \in BOOLEAN : url_changed(k, ok)
             /\ wfail > 0 /\ history = load_json(disk, "history", <<>>)
             /\ ~tabs[k].private /\ ShowsPage(k)
             /\ Head(tabs[k].pending).arg # Empty
             /\ ~InSeq(Head(tabs[k].pending).arg, history)) =>
                InSeq(Head(tabs[k].pending).arg, history')]_vars

\* C24: a shutdown writes one {url, private} entry per open tab, in tab
\* order, and no active index; after a restore of N >= 1 entries there are N
\* tabs and the active one is the last, whichever was active at shutdown.
C24_RestoreActivatesLast ==
    [][/\ quit(TRUE) =>
            /\ Len(disk'.session) = Len(tabs)
            /\ \A k \in 1..Len(tabs) :
                    /\ DOMAIN disk'.session[k] = {"url", "private"}
                    /\ disk'.session[k].private = tabs[k].private
       /\ ((\E mode \in Modes : start(mode))
            /\ "session" \notin disk.unreadable /\ Len(disk.session) >= 1) =>
            /\ Len(tabs') = Len(disk.session)
            /\ current' = Len(disk.session)]_vars

\* two tabs were restored, the first by add_tab(url), and the second is
\* active
C24_Witness ==
    /\ Running /\ Len(tabs) = 2 /\ current = 2
    /\ tabs[1].idx = 1 /\ tabs[1].label = LLoading /\ tabs[1].shown = U1
    /\ Len(disk.session) = 2 /\ "session" \notin disk.unreadable

\* C25: in each of the three programs and for every address-bar text, the
\* empty one included, navigate calls load_url on the active tab exactly once,
\* with a URL that starts with http:// or https://; that tab is then not in
\* Home, and no other tab changes.
C25_NavigateLoadsOnce ==
    [][\A text \in TextsNav, mode \in Modes :
            navigate(text, mode) =>
                LET t == tabs'[current] IN
                /\ StartsWith(t.shown, HTTP) \/ StartsWith(t.shown, HTTPS)
                /\ Loads(t.pending) = Loads(tabs[current].pending) + 1
                /\ ~t.is_home
                /\ Len(tabs') = Len(tabs) /\ current' = current
                /\ \A j \in 1..Len(tabs) : j # current => tabs'[j] = tabs[j]]_vars

\* browser.py with two tabs: return was pressed on an empty address bar in the
\* second, which was sent to https://
C25_Witness ==
    /\ variant = "V1" /\ Len(tabs) = 2 /\ current = 2
    /\ tabs[2].shown = HTTPS /\ ~tabs[2].is_home /\ url_input = Empty
    /\ tabs[1].is_home

====
